---- MODULE Spec2Model ----
(***************************************************************************)
(* ecsctl (src/python/ecsctl.py): a CLI that lists ECS clusters, container *)
(* instances and containers, opens an SSM session to an instance, and      *)
(* keeps one "current-cluster" value in ~/.ecsctl/config.json.             *)
(*                                                                         *)
(* Every CLI invocation is an operating-system process.  A process is a    *)
(* record of the locals of the command it runs; the config file is the     *)
(* only state shared between processes.  One action is one step of a       *)
(* command: an AWS SDK call, a file-system call, or the subprocess launch. *)
(***************************************************************************)
EXTENDS Integers, Sequences, FiniteSets, TLC

VARIABLES
    exists,     \* CONFIG_FILE.exists()
    content,    \* the bytes of CONFIG_FILE, as a sequence of tokens
    proc,       \* proc[p]: the locals of the CLI process p
    lastUse,    \* history: NAME of the latest use-cluster that exited 0
    prevUse     \* history: NAME of the one before it

vars == <<exists, content, proc, lastUse, prevUse>>

----------------------------------------------------------------------------
(* Bounds *)

NProcs == 2          \* CLI processes
MaxInst == 2         \* container instances in one describe response
MaxTasks == 2        \* tasks in one describe_tasks response

Procs == 1..NProcs

----------------------------------------------------------------------------
(* Values *)

None == "None"                       \* Python's None
DefaultRegion == "ap-southeast-1"    \* os.getenv('AWS_REGION', ...) default

\* Environment variables: unset, set to the empty string, or set to a value.
RoleArnEnv == {None, "", "arn:aws:iam::1:role/R"}
ProfileEnv == {None, "", "dev"}

\* Cluster names, and their characters (names differ in length).
ClusterNames == {"a", "bb"}
Chars(name) == IF name = "a" THEN <<"a">> ELSE IF name = "bb" THEN <<"b", "b">> ELSE <<>>

\* A cluster ARN "arn:aws:ecs:R:A:cluster/NAME", as its "/"-separated parts.
ClusterArn(name) == <<"arn:aws:ecs:r:1:cluster", name>>

\* list_clusters responses: the clusterArns list.
ClusterListings ==
    { <<>>, <<ClusterArn("a")>>, <<ClusterArn("bb")>>,
      <<ClusterArn("a"), ClusterArn("bb")>> }

InstanceIds == {"i-1", "i-2"}

\* list_container_instances / list_tasks responses: n ARNs.
Arns(kind, n) == [i \in 1..n |-> <<kind, i>>]

\* A containerInstances element of describe_container_instances.
ContainerInstances ==
    { [ec2InstanceId |-> id, status |-> "ACTIVE"] : id \in InstanceIds }

\* The tasks element of describe_tasks: its ARN parts and container names.
Tasks ==
    { [taskArn |-> <<"arn:aws:ecs:r:1:task", "a", "t1">>, containers |-> <<"web">>],
      [taskArn |-> <<"arn:aws:ecs:r:1:task", "a", "t2">>, containers |-> <<"web", "db">>] }

CliCommands == {"use-cluster", "get-clusters", "get ec2", "get containers", "exec"}

\* Python truthiness of an Optional[str].
Truthy(x) == x # None /\ x # ""

RECURSIVE SeqsUpTo(_, _)
SeqsUpTo(S, n) ==
    IF n = 0 THEN { <<>> }
    ELSE LET shorter == SeqsUpTo(S, n - 1)
         IN  shorter \cup { Append(s, x) : s \in shorter, x \in S }

Range(s) == { s[i] : i \in 1..Len(s) }
Last(s) == s[Len(s)]

----------------------------------------------------------------------------
(* ClusterConfig: the JSON file *)

\* json.dump({'current-cluster': v}, f, indent=2): the text, with the value
\* and what follows it character by character (null is 4 characters, "a" is 3).
JsonValue(v) == IF v = None THEN <<"n", "u", "l", "l">> ELSE <<"\"">> \o Chars(v) \o <<"\"">>
JsonDump(config) ==
    <<"{", "\n  ", "\"current-cluster\"", ": ">>
    \o JsonValue(config["current-cluster"]) \o <<"\n", "}">>

\* The dict the file holds: one key.
Config(v) == [k \in {"current-cluster"} |-> v]

JSONDecodeError == [k \in {"error"} |-> "JSONDecodeError"]

ConfigValues == ClusterNames \cup {None}

\* json.load(f): the dict whose dump is the text, else JSONDecodeError.
JsonLoad(text) ==
    IF \E v \in ConfigValues : JsonDump(Config(v)) = text
    THEN Config(CHOOSE v \in ConfigValues : JsonDump(Config(v)) = text)
    ELSE JSONDecodeError

IsDecodeError(x) == x = JSONDecodeError

\* Mutant: the file is opened without truncation ('r+').
OpenWithoutTruncate(text) == text

\* open(file, 'w'): create or truncate.
OpenTruncate(text) == <<>>

\* write() of data at offset 0 of a file holding text.
WriteAtStart(text, data) == data \o SubSeq(text, Len(data) + 1, Len(text))

\* Mutant: the null config is written on every start.
ConfigAlwaysMissing(e) == TRUE

\* _ensure_config_exists: `if not self.config_file.exists()`.
ConfigMissing(e) == ~e

\* set_current_cluster: config['current-cluster'] = cluster_name.
SetCluster(config, name) == [config EXCEPT !["current-cluster"] = name]

\* What get_current_cluster of a new process would return now.
PersistedCluster ==
    IF ~exists THEN None
    ELSE IF IsDecodeError(JsonLoad(content)) THEN "<corrupt>"
    ELSE JsonLoad(content)["current-cluster"]

----------------------------------------------------------------------------
(* AWSClient and ECSController.__init__ *)

NoSession == [creds |-> "none", profile |-> None, region |-> None,
              issuerProfile |-> None, issuerRegion |-> None]

\* boto3.Session(profile_name=..., region_name=...): the default credential chain.
Session(profile, region) ==
    [creds |-> "default", profile |-> profile, region |-> region,
     issuerProfile |-> None, issuerRegion |-> None]

\* Mutant: the base session ignores the profile.
BaseSessionFromEnv(profile, region) == Session(None, region)

\* authenticate: the base session, from the profile or from the environment.
BaseSession(profile, region) ==
    IF Truthy(profile) THEN Session(profile, None) ELSE Session(None, region)

\* authenticate: the session built from the credentials sts.assume_role of the
\* base session returned.
AssumedSession(base, region) ==
    [creds |-> "assumed", profile |-> None, region |-> region,
     issuerProfile |-> base.profile, issuerRegion |-> base.region]

\* _initialize_aws_clients: `authenticate(role_arn) if role_arn else ...`.
UsesRole(role_arn) == Truthy(role_arn)

NoClients == [ecs |-> NoSession, ec2 |-> NoSession, ssm |-> NoSession]

\* _initialize_aws_clients: session.client('ecs' | 'ec2' | 'ssm').
MakeClients(session) == [ecs |-> session, ec2 |-> session, ssm |-> session]

----------------------------------------------------------------------------
(* Exceptions *)

NoError == "none"

\* Mutant: the exception is let through unwrapped.
Reraise(e) == e

\* `except Exception as e: raise ECSCommandError(...)` of the controller methods.
Wrap(e) == "ECSCommandError"

\* authenticate: `except Exception as e: raise Exception(...)`.
AuthError(e) == "Exception"

\* `except ECSCommandError as e` of the CLI commands.
Caught(e) == e = "ECSCommandError"

----------------------------------------------------------------------------
(* A CLI process *)

IdleProc ==
    [pc |-> "idle", cmd |-> None, arg |-> None,
     role |-> None, profile |-> None,
     clients |-> NoClients,
     clusters |-> <<>>, current |-> None, config |-> Config(None),
     arns |-> <<>>, described |-> <<>>, instances |-> <<>>, returned |-> FALSE,
     tasks |-> <<>>, containers |-> <<>>, ssm |-> "unchecked",
     trace |-> <<>>, launched |-> <<>>,
     exit |-> -1, exc |-> NoError, reported |-> FALSE, failed |-> None,
     pre |-> None]

\* The command ends normally: exit status 0.
Return(r) == [r EXCEPT !.pc = "done", !.exit = 0]

\* sys.exit(1) in the command body: SystemExit is no ECSCommandError.
SysExit(r) == [r EXCEPT !.pc = "done", !.exit = 1, !.exc = "SystemExit"]

\* An exception e leaves the command's try block: an ECSCommandError is
\* reported and the handler calls sys.exit(1); any other exception ends the
\* interpreter with a traceback, status 1.
Raise(r, e) ==
    [r EXCEPT !.pc = "done", !.exit = 1, !.exc = e, !.reported = Caught(e)]

Call(r, api) == [r EXCEPT !.trace = Append(@, api)]

\* The call `api` raised e0, which reaches the command as e.
Fail(r, api, e) == Raise([r EXCEPT !.failed = api], e)

Set(p, r) == proc' = [proc EXCEPT ![p] = r]

Init ==
    /\ exists = FALSE
    /\ content = <<>>
    /\ proc = [p \in Procs |-> IdleProc]
    /\ lastUse = None
    /\ prevUse = None

\* The shell starts `ecsctl <cmd> [arg]` with some environment.
Begin(p, c, a, role, profile) ==
    /\ proc[p].pc = "idle"
    /\ Set(p, [IdleProc EXCEPT !.pc = "init", !.cmd = c, !.arg = a,
                               !.role = role, !.profile = profile,
                               !.pre = PersistedCluster])
    /\ UNCHANGED <<exists, content, lastUse, prevUse>>

ArgsOf(c) ==
    IF c = "use-cluster" THEN ClusterNames
    ELSE IF c = "exec" THEN InstanceIds
    ELSE {None}

\* Commands run one after another: no other process is running.
Start(p) ==
    /\ \A q \in Procs : proc[q].pc = "idle"
    /\ \E c \in CliCommands : \E a \in ArgsOf(c) :
       \E role \in RoleArnEnv : \E profile \in ProfileEnv :
          Begin(p, c, a, role, profile)

\* The process is gone: its memory with it.
Exit(p) ==
    /\ proc[p].pc = "done"
    /\ Set(p, IdleProc)
    /\ UNCHANGED <<exists, content, lastUse, prevUse>>

\* ECSController.__init__ up to the three clients.
InitializeAwsClients(p) ==
    LET r == proc[p]
        region == DefaultRegion
        base == BaseSession(r.profile, region)
    IN
    /\ r.pc = "init"
    /\ UNCHANGED <<exists, content, lastUse, prevUse>>
    /\ IF UsesRole(r.role)
       THEN \E baseOk \in BOOLEAN : \E stsOk \in BOOLEAN :
              IF ~baseOk THEN Set(p, Fail(r, "boto3.Session", Wrap(AuthError("ProfileNotFound"))))
              ELSE IF ~stsOk
                   THEN Set(p, Fail(Call(r, "sts.assume_role"), "sts.assume_role",
                                   Wrap(AuthError("ClientError"))))
                   ELSE Set(p, [Call(r, "sts.assume_role") EXCEPT
                                  !.clients = MakeClients(AssumedSession(base, region)),
                                  !.pc = "config"])
       ELSE \E ok \in BOOLEAN :
              IF ~ok THEN Set(p, Fail(r, "boto3.Session", Wrap("ProfileNotFound")))
              ELSE Set(p, [r EXCEPT
                             !.clients = MakeClients(Session(r.profile, region)),
                             !.pc = "config"])

\* Where the command body starts once ECSController() has returned.
Body(c) == IF c \in {"use-cluster", "get-clusters"} THEN "list_clusters" ELSE "get_current"

\* ClusterConfig.__init__ / _ensure_config_exists: the exists() test.
EnsureConfigExists(p) ==
    LET r == proc[p] IN
    /\ r.pc = "config"
    /\ UNCHANGED <<exists, content, lastUse, prevUse>>
    /\ IF ConfigMissing(exists)
       THEN Set(p, [r EXCEPT !.pc = "ensure_open", !.config = Config(None)])
       ELSE Set(p, [r EXCEPT !.pc = Body(r.cmd)])

\* _save_config: open(self.config_file, 'w').
SaveOpen(p) ==
    LET r == proc[p] IN
    /\ r.pc \in {"ensure_open", "set_open"}
    /\ exists' = TRUE
    /\ content' = OpenTruncate(content)
    /\ Set(p, [r EXCEPT !.pc = IF r.pc = "ensure_open" THEN "ensure_write" ELSE "set_write"])
    /\ UNCHANGED <<lastUse, prevUse>>

\* _save_config: json.dump and the flush at close.  After set_current_cluster
\* use-cluster prints and returns.
SaveWrite(p) ==
    LET r == proc[p] IN
    /\ r.pc \in {"ensure_write", "set_write"}
    /\ exists' = TRUE
    /\ content' = WriteAtStart(content, JsonDump(r.config))
    /\ IF r.pc = "ensure_write"
       THEN /\ Set(p, [r EXCEPT !.pc = Body(r.cmd)])
            /\ UNCHANGED <<lastUse, prevUse>>
       ELSE /\ Set(p, Return(r))
            /\ lastUse' = r.arg
            /\ prevUse' = lastUse

----------------------------------------------------------------------------
(* ECSController queries *)

\* str.split('/')[-1]
LastPart(arn) == arn[Len(arn)]

\* get_clusters: [cluster.split('/')[-1] for cluster in clusters]
ClusterNamesOf(arnList) == [i \in 1..Len(arnList) |-> LastPart(arnList[i])]

\* Mutant: the membership test is dropped.
ClusterAlwaysFound(name, clusters) == FALSE

\* use_cluster: `if cluster_name not in clusters`.
ClusterNotFound(name, clusters) == name \notin Range(clusters)

\* Mutant: the test for a selected cluster is dropped.
ClusterAlwaysSelected(current) == FALSE

\* get_ec2 / get_containers / exec_instance: `if not current_cluster`.
NoClusterSelected(current) == ~Truthy(current)

\* Mutant: describe_container_instances is called with an empty list too.
AlwaysDescribe(arns) == TRUE

\* get_ec2_instances: `if container_instances:`.
HasInstances(arns) == arns # <<>>

\* get_ec2_instances: instance_info.
InstanceInfo(ci) == [InstanceId |-> ci.ec2InstanceId, Status |-> ci.status]

\* get_instance_details: next((... if instance['InstanceId'] == instance_id), None)
\* followed by exec_instance's `if not instance`.
InstanceFound(instances, id) == \E i \in 1..Len(instances) : instances[i].InstanceId = id

SsmOutcomes == {"raised", "empty", "listed"}

\* Mutant: check_ssm_status returns True when the SSM call raises.
SsmAvailableOnError(outcome) == outcome # "empty"

\* check_ssm_status: len(InstanceInformationList) > 0, and False on any exception.
SsmAvailable(outcome) == outcome = "listed"

\* get_containers: one container_info per container of each task, in order.
ContainerInfos(task) ==
    [i \in 1..Len(task.containers) |->
        [Name |-> task.containers[i], TaskId |-> LastPart(task.taskArn)]]

RECURSIVE AllContainers(_)
AllContainers(tasks) ==
    IF tasks = <<>> THEN <<>>
    ELSE ContainerInfos(Head(tasks)) \o AllContainers(Tail(tasks))

\* The exception an AWS error becomes on its way to the command: get_ec2_instances
\* wraps it, and under exec get_instance_details wraps it again.
Ec2Error(r, e) == IF r.cmd = "exec" THEN Wrap(Wrap(e)) ELSE Wrap(e)

\* exec_instance: the command line of the session.
SessionCmd(id, profile, region) ==
    <<"aws", "ssm", "start-session", "--target", id>>
    \o (IF Truthy(profile) THEN <<"--profile", profile>> ELSE <<>>)
    \o <<"--region", region>>

\* get_ec2_instances has returned `instances`: get ec2 prints them; exec looks
\* the instance up.
AfterInstances(r) ==
    LET s == [r EXCEPT !.returned = TRUE] IN
    IF s.cmd = "get ec2" THEN Return(s)
    ELSE IF ~InstanceFound(s.instances, s.arg) THEN SysExit(s)
    ELSE [s EXCEPT !.pc = "check_ssm"]

\* ECSController.get_clusters, and what use-cluster / get-clusters do next.
GetClusters(p) ==
    LET r == Call(proc[p], "ecs.list_clusters") IN
    /\ proc[p].pc = "list_clusters"
    /\ UNCHANGED <<exists, content, lastUse, prevUse>>
    /\ \E ok \in BOOLEAN :
         IF ~ok THEN Set(p, Fail(r, Last(r.trace), Wrap("ClientError")))
         ELSE \E listing \in ClusterListings :
                LET s == [r EXCEPT !.clusters = ClusterNamesOf(listing)] IN
                IF s.cmd = "get-clusters" THEN Set(p, [s EXCEPT !.pc = "get_current"])
                ELSE IF ClusterNotFound(s.arg, s.clusters) THEN Set(p, SysExit(s))
                ELSE Set(p, [s EXCEPT !.pc = "set_load"])

\* ClusterConfig.set_current_cluster up to the save: load, then assign.
SetCurrentCluster(p) ==
    LET r == proc[p]
        loaded == JsonLoad(content)
    IN
    /\ r.pc = "set_load"
    /\ UNCHANGED <<exists, content, lastUse, prevUse>>
    /\ IF IsDecodeError(loaded) THEN Set(p, Raise(r, "JSONDecodeError"))
       ELSE Set(p, [r EXCEPT !.pc = "set_open", !.config = SetCluster(loaded, r.arg)])

\* ClusterConfig.get_current_cluster, and the command's test of the result.
GetCurrentCluster(p) ==
    LET r == Call(proc[p], "config.get_current_cluster")
        loaded == JsonLoad(content)
    IN
    /\ proc[p].pc = "get_current"
    /\ UNCHANGED <<exists, content, lastUse, prevUse>>
    /\ IF IsDecodeError(loaded) THEN Set(p, Raise(r, "JSONDecodeError"))
       ELSE LET s == [r EXCEPT !.current = loaded["current-cluster"]] IN
            IF s.cmd = "get-clusters" THEN Set(p, Return(s))
            ELSE IF NoClusterSelected(s.current) THEN Set(p, SysExit(s))
            ELSE IF s.cmd = "get containers" THEN Set(p, [s EXCEPT !.pc = "list_tasks"])
            ELSE Set(p, [s EXCEPT !.pc = "list_ci"])

\* get_ec2_instances: list_container_instances.
ListContainerInstances(p) ==
    LET r == Call(proc[p], "ecs.list_container_instances") IN
    /\ proc[p].pc = "list_ci"
    /\ UNCHANGED <<exists, content, lastUse, prevUse>>
    /\ \E ok \in BOOLEAN :
         IF ~ok THEN Set(p, Fail(r, Last(r.trace), Ec2Error(r, "ClientError")))
         ELSE \E n \in 0..MaxInst :
                LET s == [r EXCEPT !.arns = Arns("container-instance", n)] IN
                IF HasInstances(s.arns) THEN Set(p, [s EXCEPT !.pc = "describe_ci"])
                ELSE Set(p, AfterInstances(s))

\* get_ec2_instances: describe_container_instances.
DescribeContainerInstances(p) ==
    LET r == Call(proc[p], "ecs.describe_container_instances") IN
    /\ proc[p].pc = "describe_ci"
    /\ UNCHANGED <<exists, content, lastUse, prevUse>>
    /\ \E ok \in BOOLEAN :
         IF ~ok THEN Set(p, Fail(r, Last(r.trace), Ec2Error(r, "ClientError")))
         ELSE \E resp \in SeqsUpTo(ContainerInstances, MaxInst) :
                /\ Len(resp) <= Len(r.arns)
                /\ LET s == [r EXCEPT !.described = resp] IN
                   IF resp = <<>> THEN Set(p, AfterInstances(s))
                   ELSE Set(p, [s EXCEPT !.pc = "describe_ec2"])

\* get_ec2_instances: one turn of the loop, describe_instances of the next
\* container instance.
DescribeInstances(p) ==
    LET r == Call(proc[p], "ec2.describe_instances")
        ci == r.described[Len(r.instances) + 1]
    IN
    /\ proc[p].pc = "describe_ec2"
    /\ UNCHANGED <<exists, content, lastUse, prevUse>>
    /\ \E ok \in BOOLEAN :
         IF ~ok THEN Set(p, Fail(r, Last(r.trace), Ec2Error(r, "ClientError")))
         ELSE LET s == [r EXCEPT !.instances = Append(@, InstanceInfo(ci))] IN
              IF Len(s.instances) = Len(s.described) THEN Set(p, AfterInstances(s))
              ELSE Set(p, s)

\* get_containers: list_tasks.
ListTasks(p) ==
    LET r == Call(proc[p], "ecs.list_tasks") IN
    /\ proc[p].pc = "list_tasks"
    /\ UNCHANGED <<exists, content, lastUse, prevUse>>
    /\ \E ok \in BOOLEAN :
         IF ~ok THEN Set(p, Fail(r, Last(r.trace), Wrap("ClientError")))
         ELSE \E n \in 0..MaxTasks :
                LET s == [r EXCEPT !.arns = Arns("task", n)] IN
                IF s.arns # <<>> THEN Set(p, [s EXCEPT !.pc = "describe_tasks"])
                ELSE Set(p, Return(s))

\* get_containers: describe_tasks, and the table.
DescribeTasks(p) ==
    LET r == Call(proc[p], "ecs.describe_tasks") IN
    /\ proc[p].pc = "describe_tasks"
    /\ UNCHANGED <<exists, content, lastUse, prevUse>>
    /\ \E ok \in BOOLEAN :
         IF ~ok THEN Set(p, Fail(r, Last(r.trace), Wrap("ClientError")))
         ELSE \E resp \in SeqsUpTo(Tasks, MaxTasks) :
                /\ Len(resp) <= Len(r.arns)
                /\ Set(p, Return([r EXCEPT !.tasks = resp,
                                           !.containers = AllContainers(resp)]))

\* check_ssm_status, and exec's test of it.
CheckSsmStatus(p) ==
    LET r == Call(proc[p], "ssm.describe_instance_information") IN
    /\ proc[p].pc = "check_ssm"
    /\ UNCHANGED <<exists, content, lastUse, prevUse>>
    /\ \E outcome \in SsmOutcomes :
         LET s == [r EXCEPT !.ssm = outcome] IN
         IF SsmAvailable(outcome) THEN Set(p, [s EXCEPT !.pc = "start_session"])
         ELSE Set(p, SysExit(s))

\* exec_instance: subprocess.run(cmd), then the command returns.
StartSession(p) ==
    LET r == Call(proc[p], "subprocess.run") IN
    /\ proc[p].pc = "start_session"
    /\ UNCHANGED <<exists, content, lastUse, prevUse>>
    /\ Set(p, Return([r EXCEPT !.launched =
                        SessionCmd(r.arg, r.profile, DefaultRegion)]))

----------------------------------------------------------------------------
(* Specifications *)

Step(p) ==
    \/ InitializeAwsClients(p)
    \/ EnsureConfigExists(p)
    \/ SaveOpen(p)
    \/ SaveWrite(p)
    \/ GetClusters(p)
    \/ SetCurrentCluster(p)
    \/ GetCurrentCluster(p)
    \/ ListContainerInstances(p)
    \/ DescribeContainerInstances(p)
    \/ DescribeInstances(p)
    \/ ListTasks(p)
    \/ DescribeTasks(p)
    \/ CheckSsmStatus(p)
    \/ StartSession(p)
    \/ Exit(p)

\* CLI commands run one after another.
Next == \E p \in Procs : Start(p) \/ Step(p)

Spec == Init /\ [][Next]_vars

----------------------------------------------------------------------------
(* Concurrent invocations: nothing in the code orders two ecsctl processes. *)
(* The commands that reach the config file through both of its paths are    *)
(* enough here: use-cluster writes it, get-clusters reads it.               *)

StartConcurrent(p) ==
    \E c \in {"use-cluster", "get-clusters"} : \E a \in ArgsOf(c) :
        Begin(p, c, a, None, None)

ConcurrentStep(p) ==
    \/ InitializeAwsClients(p)
    \/ EnsureConfigExists(p)
    \/ SaveOpen(p)
    \/ SaveWrite(p)
    \/ GetClusters(p)
    \/ SetCurrentCluster(p)
    \/ GetCurrentCluster(p)
    \/ Exit(p)

NextConcurrent == \E p \in Procs : StartConcurrent(p) \/ ConcurrentStep(p)

SpecConcurrent == Init /\ [][NextConcurrent]_vars

----------------------------------------------------------------------------
(* Properties *)

Done(p) == proc[p].pc = "done"
Quiescent == \A p \in Procs : proc[p].pc \in {"idle", "done"}
Called(p, api) == api \in Range(proc[p].trace)
HasRead(p) == Called(p, "config.get_current_cluster") /\ proc[p].exc # "JSONDecodeError"

\* The first place of x in s, 0 when absent.
IndexOf(s, x) == IF x \in Range(s) THEN CHOOSE i \in 1..Len(s) : s[i] = x /\ \A j \in 1..(i - 1) : s[j] # x ELSE 0

AwsQueries ==
    { "ecs.list_clusters", "ecs.list_container_instances",
      "ecs.describe_container_instances", "ec2.describe_instances",
      "ecs.list_tasks", "ecs.describe_tasks", "ssm.describe_instance_information" }

NeedsCluster == {"get ec2", "get containers", "exec"}

\* C1: with commands run one after another, whenever no command is in
\* progress the persisted current-cluster is the name given to the latest
\* use-cluster that succeeded (null when there was none), and the value a
\* process has read with get_current_cluster is that name.
C1_PersistedIsLatestUse ==
    /\ Quiescent => PersistedCluster = lastUse
    /\ \A p \in Procs : HasRead(p) => proc[p].current = lastUse

\* C1 witness: a second use-cluster replaced a longer name by a shorter one
\* and a later process read the new name.
C1_Witness ==
    /\ prevUse = "bb" /\ lastUse = "a"
    /\ \E p \in Procs : Done(p) /\ proc[p].cmd = "get-clusters" /\ proc[p].exit = 0
                        /\ proc[p].current = "a"

\* C2: use-cluster NAME gets to set_current_cluster only with NAME in the list
\* this invocation received; when NAME is not in it (or no list came back) the
\* command ends with status 1 and the persisted current cluster is the one it
\* found.
C2_UseClusterOnlyListed ==
    \A p \in Procs : proc[p].cmd = "use-cluster" =>
        /\ proc[p].pc \in {"set_load", "set_open", "set_write"}
              => proc[p].arg \in Range(proc[p].clusters)
        /\ (Done(p) /\ PersistedCluster # proc[p].pre)
              => proc[p].arg \in Range(proc[p].clusters)
        /\ (Done(p) /\ proc[p].arg \notin Range(proc[p].clusters))
              => proc[p].exit = 1 /\ PersistedCluster = proc[p].pre

\* C2 witness: use-cluster a, with bb selected and a list without a.
C2_Witness ==
    \E p \in Procs :
        /\ Done(p) /\ proc[p].cmd = "use-cluster" /\ proc[p].arg = "a"
        /\ proc[p].clusters = <<"bb">> /\ proc[p].pre = "bb"
        /\ proc[p].exc = "SystemExit" /\ PersistedCluster = "bb"

\* C3: get ec2, get containers and exec, started with no cluster selected,
\* issue no ECS, EC2 or SSM query, launch nothing, and end with status 1.
C3_NoClusterNoQuery ==
    \A p \in Procs :
        (proc[p].cmd \in NeedsCluster /\ ~Truthy(proc[p].pre)) =>
            /\ Range(proc[p].trace) \cap AwsQueries = {}
            /\ ~Called(p, "subprocess.run") /\ proc[p].launched = <<>>
            /\ Done(p) => proc[p].exit = 1

\* C3 witness: exec read a null current cluster and left through sys.exit(1).
C3_Witness ==
    \E p \in Procs :
        /\ Done(p) /\ proc[p].cmd = "exec" /\ HasRead(p)
        /\ proc[p].current = None /\ proc[p].exc = "SystemExit"

\* The get_ec2_instances calls of a process, in the order made.
Ec2Calls(p) ==
    SelectSeq(proc[p].trace,
              LAMBDA c : c \in {"ecs.list_container_instances",
                                "ecs.describe_container_instances",
                                "ec2.describe_instances"})

\* list, describe, then n describe_instances.
ChainOf(n) ==
    <<"ecs.list_container_instances", "ecs.describe_container_instances">>
    \o [i \in 1..n |-> "ec2.describe_instances"]

IsPrefix(s, t) == Len(s) <= Len(t) /\ \A i \in 1..Len(s) : s[i] = t[i]

\* C4: exec launches the session only as the last step after reading a
\* selected cluster, finding INSTANCE among the cluster's instances and a
\* true check_ssm_status, in that order; an instance that is not found is
\* never checked with SSM; a false or failed SSM check launches nothing and
\* ends with status 1.
C4_ExecOrder ==
    \A p \in Procs : proc[p].cmd = "exec" =>
        LET t == proc[p].trace
            read == IndexOf(t, "config.get_current_cluster")
            list == IndexOf(t, "ecs.list_container_instances")
            ssm == IndexOf(t, "ssm.describe_instance_information")
            run == IndexOf(t, "subprocess.run")
        IN
        /\ (run > 0 \/ proc[p].launched # <<>>) =>
              /\ 0 < read /\ read < list /\ list < ssm /\ ssm < run /\ run = Len(t)
              /\ Truthy(proc[p].current)
              /\ proc[p].returned /\ InstanceFound(proc[p].instances, proc[p].arg)
              /\ proc[p].ssm = "listed"
        /\ ssm > 0 =>
              /\ 0 < read /\ read < list /\ list < ssm
              /\ proc[p].returned /\ InstanceFound(proc[p].instances, proc[p].arg)
        /\ (proc[p].returned /\ ~InstanceFound(proc[p].instances, proc[p].arg)) =>
              ssm = 0 /\ run = 0 /\ Done(p) /\ proc[p].exit = 1
        /\ proc[p].ssm \in {"raised", "empty"} =>
              run = 0 /\ proc[p].launched = <<>> /\ Done(p) /\ proc[p].exit = 1

\* C4 witness: a session was launched for the second of two instances.
C4_Witness ==
    \E p \in Procs :
        /\ Done(p) /\ proc[p].cmd = "exec" /\ proc[p].exit = 0
        /\ proc[p].launched # <<>> /\ Len(proc[p].instances) = 2
        /\ proc[p].instances[1].InstanceId # proc[p].arg

\* C5: get_ec2_instances calls list_container_instances, then
\* describe_container_instances, then describe_instances once per described
\* container instance; with no ARNs listed it makes no describe call and
\* returns []; when it returns otherwise, the result has one record per
\* described container instance, in the order of the response.
C5_Ec2Chain ==
    \A p \in Procs :
        LET calls == Ec2Calls(p)
            n == Len(proc[p].described)
        IN
        /\ IsPrefix(calls, ChainOf(n))
        /\ proc[p].returned =>
              IF proc[p].arns = <<>>
              THEN calls = <<"ecs.list_container_instances">> /\ proc[p].instances = <<>>
              ELSE /\ calls = ChainOf(n)
                   /\ Len(proc[p].instances) = n
                   /\ \A i \in 1..n :
                        proc[p].instances[i].InstanceId = proc[p].described[i].ec2InstanceId

\* C5 witness: two different container instances were described and returned.
C5_Witness ==
    \E p \in Procs :
        /\ proc[p].cmd = "get ec2" /\ proc[p].returned
        /\ Len(proc[p].described) = 2
        /\ proc[p].described[1] # proc[p].described[2]
        /\ Len(proc[p].instances) = 2

ControllerQueries ==
    { "ecs.list_clusters", "ecs.list_container_instances",
      "ecs.describe_container_instances", "ec2.describe_instances",
      "ecs.list_tasks", "ecs.describe_tasks" }

\* C6: an exception of an AWS call made by get_clusters, get_ec2_instances,
\* get_containers or get_instance_details reaches the command as an
\* ECSCommandError; a command that receives an ECSCommandError reports it,
\* ends with status 1, leaves the persisted current cluster as it found it
\* and launches no session.
C6_ErrorsWrapped ==
    \A p \in Procs :
        /\ proc[p].failed \in ControllerQueries => proc[p].exc = "ECSCommandError"
        /\ proc[p].exc = "ECSCommandError" =>
              /\ Done(p) /\ proc[p].exit = 1 /\ proc[p].reported
              /\ PersistedCluster = proc[p].pre
              /\ proc[p].launched = <<>> /\ ~Called(p, "subprocess.run")

\* C6 witness: under exec, with a cluster selected, the second
\* describe_instances raised.
C6_Witness ==
    \E p \in Procs :
        /\ Done(p) /\ proc[p].cmd = "exec" /\ proc[p].pre = "a"
        /\ proc[p].failed = "ec2.describe_instances"
        /\ Len(proc[p].instances) = 1

SessionOf(p) == proc[p].clients.ecs
Initialized(p) == proc[p].clients # NoClients

C8_OnlyUseClusterWrites ==
    \A p \in Procs :
        /\ (proc[p].cmd \in (CliCommands \ {"use-cluster"}) /\ proc[p].pc # "ensure_write")
              => PersistedCluster = proc[p].pre
        /\ proc[p].pc = "ensure_open" => ~exists
        /\ proc[p].pc \in {"ensure_open", "ensure_write"} =>
              /\ proc[p].config = Config(None)
              /\ lastUse = None /\ proc[p].pre = None

\* C8 witness: exec ran to the session with bb selected, and bb is still
\* selected.
C8_Witness ==
    \E p \in Procs :
        /\ Done(p) /\ proc[p].cmd = "exec" /\ proc[p].exit = 0
        /\ proc[p].pre = "bb" /\ PersistedCluster = "bb"

\* C9: with invocations running concurrently, no process fails to parse the
\* config file (a reader gets the old or the new name), and once every
\* process has finished the file holds a config.
C9_AtomicConfig ==
    /\ \A p \in Procs : proc[p].exc # "JSONDecodeError"
    /\ Quiescent => PersistedCluster # "<corrupt>"

\* The second half of C9 alone: concurrent use-cluster invocations that all
\* exited 0 leave a config file that parses.
C9_WritersLeaveConfig ==
    (Quiescent /\ \A p \in Procs : proc[p].exc = NoError) => PersistedCluster # "<corrupt>"

====
